---- MODULE Spec2Model ----
(***************************************************************************)
(* Model of the family wish-list / Secret Santa web application            *)
(* (src/app.py): the family-member pool, the stored Secret Santa           *)
(* assignment, the admin session flag and the request handlers that        *)
(* change them.  Requests are served one at a time; the handler            *)
(* run_secret_santa is split at its retry loop, one step per shuffle       *)
(* attempt, so that the number of attempts is part of the state.           *)
(*                                                                         *)
(* A row of family_members is modelled without its AUTOINCREMENT id: the   *)
(* id is an opaque handle that the handlers only use to look a row up, so  *)
(* the member_id argument of delete_family_member / edit_family_member is  *)
(* modelled by the row it designates (or NoRow when the id matches none).  *)
(*                                                                         *)
(* Spec is the session, the member pool and run_secret_santa.  SpecAdmin   *)
(* is every route behind login_required.  SpecWishes is the wish list:     *)
(* pool, deadline, wishes and comments.  SpecRuns applies                  *)
(* run_secret_santa, as a function of the tables and of the shuffle        *)
(* outcomes, to pairs of stored assignments.  SpecReaders is the           *)
(* replacement of the stored assignment, statement by statement, next to   *)
(* a request that reads it.                                                *)
(***************************************************************************)
EXTENDS Integers, Sequences, FiniteSets, TLC

\* ---------------------------------------------------------------- bounds
\* Largest pool the model builds.
MaxMembers == 4

\* Wishes and comments inserted in a run of the model (the AUTOINCREMENT ids
\* go no further), and the last day the clock reaches.
MaxWishes == 2
MaxComments == 1
MaxDay == 3

\* ------------------------------------------------------------- constants
\* MAX_ATTEMPTS in run_secret_santa.
MAX_ATTEMPTS == 200

\* Python's None (a missing team_name, an unset local).
None == "<None>"

\* `assignment = NoAssignment`: no permutation accepted (an accepted one is never
\* empty, the loop runs on at least 2 names).
NoAssignment == <<>>

\* The default admin credentials.
ADMIN_USERNAME == "admin"
ADMIN_PASSWORD == "admin123"

\* ---------------------------------------------------------------- inputs
\* Member names in ascending order (the order of ORDER BY name ASC).
NameOrder == <<"Ann", "Bob", "Cid", "Dee", "Eve">>

\* Names a request may carry in its `name` form field ("" is a missing or
\* empty field).
Names == {NameOrder[i] : i \in 1..(IF MaxMembers < Len(NameOrder) THEN MaxMembers ELSE Len(NameOrder))}
NameInputs == Names \cup {""}

\* Raw values of the `team_name` form field; with a single team on offer.
TeamInputs == {"", " ", "X", "Y"}
OneTeamInputs == {"", "X"}

\* Values of the username / password form fields.
UsernameInputs == {"admin", "guest"}
PasswordInputs == {"admin123", "letmein"}

\* Values of the `person_name` form field of add_wish ("" is a missing or
\* empty field), and raw values of its `wish_text` field.
PersonInputs == {"", NameOrder[1], NameOrder[2]}
WishTextInputs == {"", "a book"}

\* Raw values of the `author_name` and `comment_text` form fields.
AuthorInputs == {" ", "Ann"}
CommentInputs == {" ", "hi"}

\* The days the clock goes through, as ISO dates; day i is IsoDays[i].
IsoDays == <<"2025-12-23", "2025-12-24", "2025-12-25", "2025-12-26", "2025-12-27">>

\* Raw values of the `wish_deadline` form field: blank, or the date picked.
DeadlineInputs == {"", " ", IsoDays[2]}

\* A member_id that matches no row.
NoRow == [name |-> None, team_name |-> None]

\* ----------------------------------------------------------------- state
VARIABLES
    family_members,   \* table family_members: set of [name, team_name]
    secret_santa,     \* table secret_santa: set of [giver_name, receiver_name]
    logged_in,        \* 'logged_in' in session
    pc,               \* position of the request being served
    names,            \* run_secret_santa: local `names`
    teams,            \* run_secret_santa: local `teams`
    attempts,         \* run_secret_santa: shuffles performed by the loop
    assignment,       \* run_secret_santa: local `assignment`
    flashed,          \* category and message flashed by the request being served
    wishes,           \* table wishes: set of [id, person_name, wish_text]
    wish_seq,         \* largest id given to a wish so far (AUTOINCREMENT)
    comments,         \* table comments: set of [id, author_name, comment_text]
    comment_seq,      \* largest id given to a comment so far (AUTOINCREMENT)
    wish_deadline,    \* settings row 'wish_deadline': None when there is none
    today,            \* date.today(), as a day number
    trial,            \* SpecRuns: two calls of run_secret_santa side by side
    tx,               \* SpecReaders: the open transaction of run_secret_santa
    previous,         \* SpecReaders: secret_santa as that transaction found it
    reader            \* SpecReaders: the request served next to the run

vars == <<family_members, secret_santa, logged_in, pc, names, teams,
          attempts, assignment, flashed, wishes, wish_seq, comments,
          comment_seq, wish_deadline, today, trial, tx, previous, reader>>

locals == <<names, teams, attempts, assignment, flashed>>

\* What the handlers of the session, the member pool and the assignment
\* leave alone (a DELETE does not reset an AUTOINCREMENT sequence).
outside == <<wish_seq, comment_seq, wish_deadline, today, trial, tx, previous, reader>>

\* No trial made.
NoTrial == <<>>

\* No transaction open.
NoTx == [open |-> FALSE, rows |-> {}]

\* The reading request before it starts.
ReaderStart ==
    [pc |-> "idle", selected_members |-> {}, valid_names |-> <<>>,
     looked_up |-> 0, assigned_to |-> {}, panel |-> {}]

\* --------------------------------------------------------------- helpers
\* str.strip() on the raw team inputs.
Strip(s) == IF s = " " THEN "" ELSE s

\* `request.form.get('team_name', '').strip() or None`
TeamOf(raw) == IF Strip(raw) = "" THEN None ELSE Strip(raw)

\* Mutant of Truthy: the `giver_team and` guard is lost, so None == None
\* counts as a shared team.
Truthy_NoneIncluded(v) == v # ""

\* Python truthiness of a team value.
Truthy(v) == v # None /\ v # ""

\* SELECT name ... ORDER BY name ASC, as a list.
SortedNames(members) ==
    SelectSeq(NameOrder, LAMBDA n : \E m \in members : m.name = n)

\* {m['name']: m['team_name'] for m in members}
TeamMap(members) ==
    [n \in {m.name : m \in members} |->
        (CHOOSE m \in members : m.name = n).team_name]

\* Every outcome random.shuffle can leave in a copy of `lst`.
Shuffles(lst) ==
    {[i \in 1..Len(lst) |-> lst[f[i]]] : f \in Permutations(1..Len(lst))}

\* Mutant of ReceiverAt: the receiver is taken two places on instead of one.
ReceiverAt_Skip(shuffled, i) == shuffled[((i + 1) % Len(shuffled)) + 1]

\* shuffled[(i + 1) % len(shuffled)] for the giver at (1-based) position i.
ReceiverAt(shuffled, i) == shuffled[(i % Len(shuffled)) + 1]

\* Mutant of Collision: the equality test is lost, any two members who both
\* have a team collide.
Collision_AnyTeam(shuffled, tm, i) ==
    LET giver_team    == tm[shuffled[i]]
        receiver_team == tm[shuffled[(i % Len(shuffled)) + 1]]
    IN  Truthy(giver_team) /\ Truthy(receiver_team)

\* `giver_team and giver_team == receiver_team` for the giver at position i.
Collision(shuffled, tm, i) ==
    LET giver_team    == tm[shuffled[i]]
        receiver_team == tm[ReceiverAt(shuffled, i)]
    IN  Truthy(giver_team) /\ giver_team = receiver_team

\* Mutant of IsValid: the pair from the last element back to the first is
\* not checked.
IsValid_NoWrap(shuffled, tm) ==
    \A i \in 1..(Len(shuffled) - 1) :
        ~(Truthy(tm[shuffled[i]]) /\ tm[shuffled[i]] = tm[shuffled[i + 1]])

\* Mutant of IsValid: `valid` is overwritten by every pair instead of the
\* loop breaking at the first collision, so only the last pair counts.
IsValid_LastPair(shuffled, tm) ==
    ~(/\ Truthy(tm[shuffled[Len(shuffled)]])
      /\ tm[shuffled[Len(shuffled)]] = tm[shuffled[1]])

\* Value of `valid` after the inner for loop.
IsValid(shuffled, tm) ==
    \A i \in 1..Len(shuffled) : ~Collision(shuffled, tm, i)

\* Mutant of EdgesOf: the index of the receiver is clamped to the end of the
\* list instead of wrapping to its start.
EdgesOf_NoWrap(a) ==
    {[giver_name |-> a[i],
      receiver_name |-> a[IF i < Len(a) THEN i + 1 ELSE Len(a)]] : i \in 1..Len(a)}

\* Rows inserted into secret_santa for an accepted permutation.
EdgesOf(a) ==
    {[giver_name |-> a[i], receiver_name |-> ReceiverAt(a, i)] : i \in 1..Len(a)}

\* ------------------------------------------------------------------ init
Init ==
    /\ family_members = {}
    /\ secret_santa = {}
    /\ logged_in = FALSE
    /\ pc = "idle"
    /\ names = <<>>
    /\ teams = <<>>
    /\ attempts = 0
    /\ assignment = NoAssignment
    /\ flashed = None
    /\ wishes = {}
    /\ wish_seq = 0
    /\ comments = {}
    /\ comment_seq = 0
    /\ wish_deadline = None
    /\ today = 1
    /\ trial = NoTrial
    /\ tx = NoTx
    /\ previous = {}
    /\ reader = ReaderStart

\* --------------------------------------------------------------- session
\* `username == ADMIN_USERNAME and password == ADMIN_PASSWORD`
Authenticated(username, password) ==
    username = ADMIN_USERNAME /\ password = ADMIN_PASSWORD

\* POST admin_login with the form values username and password.
LoginWith(username, password) ==
    /\ pc = "idle"
    /\ logged_in' = IF Authenticated(username, password) THEN TRUE ELSE logged_in
    /\ UNCHANGED <<family_members, secret_santa, pc, locals>>
    /\ UNCHANGED <<wishes, comments>>
    /\ UNCHANGED outside

admin_login ==
    \E username \in UsernameInputs, password \in PasswordInputs :
        LoginWith(username, password)

admin_logout ==
    /\ pc = "idle"
    /\ logged_in' = FALSE
    /\ UNCHANGED <<family_members, secret_santa, pc, locals>>
    /\ UNCHANGED <<wishes, comments>>
    /\ UNCHANGED outside

\* login_required: a protected route requested without 'logged_in' in the
\* session is answered by a redirect to admin_login; the view is not called.
login_required_redirect ==
    /\ pc = "idle"
    /\ ~logged_in
    /\ UNCHANGED vars

\* ------------------------------------------------------------ member pool
\* add_family_member with the form values name and raw_team.
AddMember(name, raw_team) ==
    /\ pc = "idle"
    /\ logged_in
    /\ LET team_name == TeamOf(raw_team) IN
       IF  /\ name # ""
           /\ ~\E m \in family_members : m.name = name      \* UNIQUE(name)
           /\ Cardinality(family_members) < MaxMembers
       THEN family_members' =
                family_members \cup {[name |-> name, team_name |-> team_name]}
       ELSE family_members' = family_members
    /\ UNCHANGED <<secret_santa, logged_in, pc, locals>>
    /\ UNCHANGED <<wishes, comments>>
    /\ UNCHANGED outside

add_family_member ==
    \E name \in NameInputs, raw_team \in TeamInputs : AddMember(name, raw_team)

\* add_family_member where the form offers a single team.
add_family_member_one_team ==
    \E name \in NameInputs, raw_team \in OneTeamInputs : AddMember(name, raw_team)

\* DELETE FROM wishes WHERE person_name = name
WishesWithout(ws, name) == {w \in ws : w.person_name # name}

delete_family_member ==
    /\ pc = "idle"
    /\ logged_in
    /\ \E member \in family_members \cup {NoRow} :
          IF member \in family_members
          THEN /\ wishes' = WishesWithout(wishes, member.name)
               /\ family_members' = family_members \ {member}
          ELSE UNCHANGED <<wishes, family_members>>
    /\ UNCHANGED <<secret_santa, logged_in, pc, locals>>
    /\ UNCHANGED comments
    /\ UNCHANGED outside

\* Mutant of WishesRenamed: the UPDATE wishes is lost.
WishesRenamed_Kept(ws, old_name, new_name) == ws

\* UPDATE wishes SET person_name = new_name WHERE person_name = old_name
WishesRenamed(ws, old_name, new_name) ==
    {IF w.person_name = old_name THEN [w EXCEPT !.person_name = new_name] ELSE w :
        w \in ws}

\* The UPDATE of family_members raises IntegrityError when another row has
\* the new name; nothing is committed then.
EditMember(member, new_name, raw_team) ==
    /\ pc = "idle"
    /\ logged_in
    /\ LET team_name == TeamOf(raw_team) IN
       IF  /\ new_name # ""
           /\ member \in family_members
           /\ ~\E m \in family_members \ {member} : m.name = new_name
       THEN /\ family_members' = (family_members \ {member})
                   \cup {[name |-> new_name, team_name |-> team_name]}
            /\ wishes' = WishesRenamed(wishes, member.name, new_name)
       ELSE UNCHANGED <<wishes, family_members>>
    /\ UNCHANGED <<secret_santa, logged_in, pc, locals>>
    /\ UNCHANGED comments
    /\ UNCHANGED outside

edit_family_member ==
    \E member \in family_members \cup {NoRow},
       new_name \in NameInputs, raw_team \in TeamInputs :
        EditMember(member, new_name, raw_team)

\* edit_family_member where the form offers a single team.
edit_family_member_one_team ==
    \E member \in family_members \cup {NoRow},
       new_name \in NameInputs, raw_team \in OneTeamInputs :
        EditMember(member, new_name, raw_team)

admin_reset ==
    /\ pc = "idle"
    /\ logged_in
    /\ wishes' = {}
    /\ secret_santa' = {}
    /\ comments' = {}
    /\ UNCHANGED <<family_members, logged_in, pc, locals>>
    /\ UNCHANGED outside

\* ------------------------------------------------------- run_secret_santa
\* The handler is taken in steps: the code up to the loop, one step per
\* iteration of the retry loop, and the redirect.  The iteration that leaves
\* the loop (by `break`, or because the range is exhausted) runs on through
\* the code after the loop, which has no further choice to make.

\* Mutant of TooFew: the size check is off by one.
TooFew_OffByOne(lst) == Len(lst) < 1

\* `len(names) < 2`
TooFew(lst) == Len(lst) < 2

\* Mutant of LeavesLoop: the loop has no cap, it is only left by `break`.
LeavesLoop_NoCap(valid, done) == valid

\* Mutant of LeavesLoop: the `break` after `assignment = shuffled` is lost,
\* the loop always runs through its whole range.
LeavesLoop_NoBreak(valid, done) == done >= MAX_ATTEMPTS

\* The loop is left after this iteration: `break`, or the range is used up.
LeavesLoop(valid, done) == valid \/ done >= MAX_ATTEMPTS

\* `assignment` after an iteration that shuffled to `shuffled`.
AssignmentAfter(old, shuffled, valid) == IF valid THEN shuffled ELSE old

\* Mutant of StoredAfter: DELETE FROM secret_santa runs before the
\* `assignment is None` check.
StoredAfter_DeleteFirst(stored, a) == IF a = NoAssignment THEN {} ELSE EdgesOf(a)

\* Mutant of StoredAfter: the DELETE is lost and the INSERTs replace row by
\* row, so a row whose giver is not in the new permutation stays.
StoredAfter_Upsert(stored, a) ==
    IF a = NoAssignment THEN stored
    ELSE {e \in stored : \A i \in 1..Len(a) : a[i] # e.giver_name} \cup EdgesOf(a)

\* Mutant of StoredAfter: the rows are only written into an empty table.
StoredAfter_KeepExisting(stored, a) ==
    IF a = NoAssignment \/ stored # {} THEN stored ELSE EdgesOf(a)

\* Table secret_santa after the code that follows the loop: untouched when
\* `assignment is None`, else DELETE FROM secret_santa, the INSERTs, commit.
StoredAfter(stored, a) == IF a = NoAssignment THEN stored ELSE EdgesOf(a)

\* The message flashed by the code that follows the loop.
FlashAfter(a) ==
    IF a = NoAssignment THEN "error: could not create" ELSE "success: created"

\* Mutant of run_secret_santa_begin: the table is cleared as soon as the
\* handler starts.
run_secret_santa_begin_DeleteFirst ==
    /\ pc = "idle"
    /\ logged_in
    /\ names' = SortedNames(family_members)
    /\ teams' = TeamMap(family_members)
    /\ attempts' = 0
    /\ assignment' = NoAssignment
    /\ secret_santa' = {}
    /\ IF Len(names') < 2
       THEN /\ flashed' = "error: need at least 2"
            /\ pc' = "return"
       ELSE /\ flashed' = None
            /\ pc' = "loop"
    /\ UNCHANGED <<family_members, logged_in>>
    /\ UNCHANGED <<wishes, comments>>
    /\ UNCHANGED outside

\* Read the pool and check its size.
run_secret_santa_begin ==
    /\ pc = "idle"
    /\ logged_in
    /\ names' = SortedNames(family_members)
    /\ teams' = TeamMap(family_members)
    /\ attempts' = 0
    /\ assignment' = NoAssignment
    /\ IF TooFew(names')
       THEN /\ flashed' = "error: need at least 2"
            /\ pc' = "return"
       ELSE /\ flashed' = None
            /\ pc' = "loop"
    /\ UNCHANGED <<family_members, secret_santa, logged_in>>
    /\ UNCHANGED <<wishes, comments>>
    /\ UNCHANGED outside

\* One iteration of `for _ in range(MAX_ATTEMPTS)` in which random.shuffle
\* leaves `shuffled`.
AttemptWith(shuffled) ==
    /\ pc = "loop"
    /\ attempts < MAX_ATTEMPTS
    /\ LET valid == IsValid(shuffled, teams)
           a     == AssignmentAfter(assignment, shuffled, valid)
       IN  /\ attempts' = attempts + 1
           /\ assignment' = a
           /\ IF LeavesLoop(valid, attempts + 1)
              THEN /\ secret_santa' = StoredAfter(secret_santa, a)
                   /\ flashed' = FlashAfter(a)
                   /\ pc' = "return"
              ELSE /\ UNCHANGED <<secret_santa, flashed>>
                   /\ pc' = "loop"
    /\ UNCHANGED <<family_members, logged_in, names, teams>>
    /\ UNCHANGED <<wishes, comments>>
    /\ UNCHANGED outside

\* One iteration of the loop, whatever the shuffle.
run_secret_santa_attempt ==
    \E shuffled \in Shuffles(names) : AttemptWith(shuffled)

\* The redirect leaves the view; its locals are gone and the flashed
\* message is consumed by the page that follows.
run_secret_santa_return ==
    /\ pc = "return"
    /\ pc' = "idle"
    /\ names' = <<>>
    /\ teams' = <<>>
    /\ attempts' = 0
    /\ assignment' = NoAssignment
    /\ flashed' = None
    /\ UNCHANGED <<family_members, secret_santa, logged_in>>
    /\ UNCHANGED <<wishes, comments>>
    /\ UNCHANGED outside

\* --------------------------------------------------------------- deadline
\* What the admin side and the run locals hold; the handlers below leave
\* them alone.
adminside == <<family_members, secret_santa, logged_in, pc, locals>>

\* date.fromisoformat(s) succeeds; it raises ValueError otherwise.
IsIsoDate(s) == \E i \in 1..Len(IsoDays) : IsoDays[i] = s

\* date.fromisoformat(s), as a day number.
FromIsoFormat(s) == CHOOSE i \in 1..Len(IsoDays) : IsoDays[i] = s

\* Mutant of WishesLocked: the deadline day itself is locked too.
WishesLocked_Exclusive(deadline_str, day) ==
    IF ~Truthy(deadline_str) THEN FALSE
    ELSE IF ~IsIsoDate(deadline_str) THEN FALSE
    ELSE day >= FromIsoFormat(deadline_str)

\* wishes_locked(), given the settings value and date.today().
WishesLocked(deadline_str, day) ==
    IF ~Truthy(deadline_str) THEN FALSE
    ELSE IF ~IsIsoDate(deadline_str) THEN FALSE
    ELSE day > FromIsoFormat(deadline_str)

\* Mutant of SetDeadline: the route is not behind login_required.
SetDeadline_Ungated(raw) ==
    /\ pc = "idle"
    /\ wish_deadline' = Strip(raw)
    /\ UNCHANGED adminside
    /\ UNCHANGED <<wishes, wish_seq, comments, comment_seq, today, trial>>
    /\ UNCHANGED <<tx, previous, reader>>

\* set_deadline with the form value raw: both branches store the stripped
\* value, '' when it is blank.
SetDeadline(raw) ==
    /\ pc = "idle"
    /\ logged_in
    /\ wish_deadline' = Strip(raw)
    /\ UNCHANGED adminside
    /\ UNCHANGED <<wishes, wish_seq, comments, comment_seq, today, trial>>
    /\ UNCHANGED <<tx, previous, reader>>

set_deadline == \E raw \in DeadlineInputs : SetDeadline(raw)

\* admin_panel reads the tables and renders them.
admin_panel ==
    /\ pc = "idle"
    /\ logged_in
    /\ UNCHANGED vars

\* The calendar moves on to the next day.
next_day ==
    /\ pc = "idle"
    /\ today < MaxDay
    /\ today' = today + 1
    /\ UNCHANGED adminside
    /\ UNCHANGED <<wishes, wish_seq, comments, comment_seq, wish_deadline, trial>>
    /\ UNCHANGED <<tx, previous, reader>>

\* ----------------------------------------------------------------- wishes
\* SELECT id FROM family_members WHERE name = person_name finds a row.
InPool(members, person_name) == \E m \in members : m.name = person_name

\* add_wish with the form values person_name and wish_text; `own` tells
\* whether person_name is one of the session's selected_members.
AddWish(person_name, wish_text, own) ==
    /\ pc = "idle"
    /\ IF WishesLocked(wish_deadline, today)
       THEN /\ flashed' = "error: deadline passed"
            /\ UNCHANGED <<wishes, wish_seq>>
       ELSE IF /\ person_name # "" /\ wish_text # ""
               /\ InPool(family_members, person_name)
            THEN /\ wish_seq < MaxWishes
                 /\ wishes' = wishes \cup {[id |-> wish_seq + 1,
                                           person_name |-> person_name,
                                           wish_text |-> wish_text]}
                 /\ wish_seq' = wish_seq + 1
                 /\ flashed' = IF own THEN None ELSE "success: wish created"
            ELSE UNCHANGED <<wishes, wish_seq, flashed>>
    /\ pc' = "redirect"
    /\ UNCHANGED <<family_members, secret_santa, logged_in, names, teams,
                   attempts, assignment>>
    /\ UNCHANGED <<comments, comment_seq, wish_deadline, today, trial>>
    /\ UNCHANGED <<tx, previous, reader>>

add_wish ==
    \E person_name \in PersonInputs, wish_text \in WishTextInputs, own \in BOOLEAN :
        AddWish(person_name, wish_text, own)

\* The redirect of add_wish is followed; the page it leads to shows the
\* flashed message.
add_wish_redirect ==
    /\ pc = "redirect"
    /\ pc' = "idle"
    /\ flashed' = None
    /\ UNCHANGED <<family_members, secret_santa, logged_in, names, teams,
                   attempts, assignment>>
    /\ UNCHANGED <<wishes, wish_seq, comments, comment_seq, wish_deadline,
                   today, trial>>
    /\ UNCHANGED <<tx, previous, reader>>

\* delete_wish(wish_id)
DeleteWish(wish_id) ==
    /\ pc = "idle"
    /\ wishes' = {w \in wishes : w.id # wish_id}
    /\ UNCHANGED adminside
    /\ UNCHANGED <<wish_seq, comments, comment_seq, wish_deadline, today, trial>>
    /\ UNCHANGED <<tx, previous, reader>>

delete_wish == \E wish_id \in 1..MaxWishes : DeleteWish(wish_id)

\* add_comment: the stripped text must not be empty; an empty author is
\* stored as NULL.
add_comment ==
    /\ pc = "idle"
    /\ \E raw_author \in AuthorInputs, raw_text \in CommentInputs :
          LET comment_text == Strip(raw_text)
              author_name  == IF Strip(raw_author) = "" THEN None ELSE Strip(raw_author)
          IN  IF comment_text # ""
              THEN /\ comment_seq < MaxComments
                   /\ comments' = comments \cup {[id |-> comment_seq + 1,
                                                 author_name |-> author_name,
                                                 comment_text |-> comment_text]}
                   /\ comment_seq' = comment_seq + 1
              ELSE UNCHANGED <<comments, comment_seq>>
    /\ UNCHANGED adminside
    /\ UNCHANGED <<wishes, wish_seq, wish_deadline, today, trial>>
    /\ UNCHANGED <<tx, previous, reader>>

\* ------------------------------------------------------------------ spec
Next ==
    \/ admin_login
    \/ admin_logout
    \/ login_required_redirect
    \/ add_family_member
    \/ delete_family_member
    \/ edit_family_member
    \/ admin_reset
    \/ run_secret_santa_begin
    \/ run_secret_santa_attempt
    \/ run_secret_santa_return

Spec == Init /\ [][Next]_vars

TypeOK ==
    /\ logged_in \in BOOLEAN
    /\ pc \in {"idle", "loop", "return", "redirect"}
    /\ attempts \in 0..MAX_ATTEMPTS
    /\ \A m \in family_members : m.name \in Names

\* The wish list: session, member pool, deadline, wishes and comments, the
\* requests served one after the other.
NextWishes ==
    \/ admin_login
    \/ admin_logout
    \/ login_required_redirect
    \/ add_family_member_one_team
    \/ delete_family_member
    \/ edit_family_member_one_team
    \/ admin_reset
    \/ set_deadline
    \/ next_day
    \/ add_wish
    \/ add_wish_redirect
    \/ delete_wish
    \/ add_comment

SpecWishes == Init /\ [][NextWishes]_vars

\* The routes behind login_required, with the session.
NextAdmin ==
    \/ admin_login
    \/ admin_logout
    \/ login_required_redirect
    \/ admin_panel
    \/ set_deadline
    \/ admin_reset
    \/ add_family_member_one_team
    \/ delete_family_member
    \/ edit_family_member_one_team
    \/ run_secret_santa_begin
    \/ run_secret_santa_attempt
    \/ run_secret_santa_return

SpecAdmin == Init /\ [][NextAdmin]_vars

\* ------------------------------------------- run_secret_santa as a whole
\* The handler as a function of what it reads: the two tables and the
\* outcomes of its calls of random.shuffle.

\* The outcomes of the shuffles of one call: `first` until attempt number
\* `switch`, `rest` from there on.
ShuffleOutcome(sh, i) == IF i < sh.switch THEN sh.first ELSE sh.rest

\* The locals of the loop before its first iteration.
LoopStart == [left |-> FALSE, attempts |-> 0, assignment |-> NoAssignment]

\* Iteration number i of the retry loop on the locals st; nothing runs once
\* the loop is left.
Iteration(tm, sh, st, i) ==
    IF st.left THEN st
    ELSE LET shuffled == ShuffleOutcome(sh, i)
             valid    == IsValid(shuffled, tm)
         IN  [left       |-> LeavesLoop(valid, i),
              attempts   |-> i,
              assignment |-> AssignmentAfter(st.assignment, shuffled, valid)]

\* Iterations lo..hi of the retry loop on the locals st, in order.
RECURSIVE Iterations(_, _, _, _, _)
Iterations(tm, sh, st, lo, hi) ==
    IF lo = hi THEN Iteration(tm, sh, st, lo)
    ELSE LET mid  == (lo + hi) \div 2
             half == Iterations(tm, sh, st, lo, mid)
         IN  IF half.left THEN half ELSE Iterations(tm, sh, half, mid + 1, hi)

\* The retry loop and the code after it.
RunLoop(tm, stored, sh) ==
    LET st == Iterations(tm, sh, LoopStart, 1, MAX_ATTEMPTS)
    IN  [flashed      |-> FlashAfter(st.assignment),
         secret_santa |-> StoredAfter(stored, st.assignment),
         attempts     |-> st.attempts,
         assignment   |-> st.assignment]

\* What a call leaves: the flashed message, the table secret_santa, the
\* shuffles performed and the accepted permutation.
RunSecretSanta(members, stored, sh) ==
    IF TooFew(SortedNames(members))
    THEN [flashed |-> "error: need at least 2", secret_santa |-> stored,
          attempts |-> 0, assignment |-> NoAssignment]
    ELSE RunLoop(TeamMap(members), stored, sh)

\* Pools the handlers can build: names are unique, a team is None or a
\* non-empty tag.
Pools ==
    {ms \in SUBSET [name : Names, team_name : {TeamOf(raw) : raw \in TeamInputs}] :
        /\ Cardinality(ms) <= MaxMembers
        /\ \A m1, m2 \in ms : m1.name = m2.name => m1 = m2}

\* Contents of secret_santa that earlier requests can have left: nothing, or
\* the cycle of a successful run over the first two names or over all.
StoredInputs ==
    {{}} \cup {EdgesOf(SubSeq(NameOrder, 1, k)) : k \in {2, Cardinality(Names)}}

\* Shuffle outcomes of a call on the list lst.
ShuffleInputs(lst) ==
    [first : Shuffles(lst), switch : {2, MAX_ATTEMPTS, MAX_ATTEMPTS + 1}, rest : {lst}]

\* The tables as earlier requests can have left them.
InitRuns ==
    /\ family_members \in Pools
    /\ secret_santa \in StoredInputs
    /\ logged_in = TRUE
    /\ pc = "idle"
    /\ names = <<>>
    /\ teams = <<>>
    /\ attempts = 0
    /\ assignment = NoAssignment
    /\ flashed = None
    /\ wishes = {}
    /\ wish_seq = 0
    /\ comments = {}
    /\ comment_seq = 0
    /\ wish_deadline = None
    /\ today = 1
    /\ trial = NoTrial
    /\ tx = NoTx
    /\ previous = secret_santa
    /\ reader = ReaderStart

\* Two calls on the same pool with the same shuffle outcomes: one on the
\* stored assignment, one on a larger one.
run_trial ==
    /\ trial = NoTrial
    /\ \E other \in StoredInputs, sh \in ShuffleInputs(SortedNames(family_members)) :
          /\ Cardinality(secret_santa) < Cardinality(other)
          /\ trial' = [sh     |-> sh,
                       before |-> <<secret_santa, other>>,
                       after  |-> <<RunSecretSanta(family_members, secret_santa, sh),
                                    RunSecretSanta(family_members, other, sh)>>]
    /\ UNCHANGED <<family_members, secret_santa, logged_in, pc, locals>>
    /\ UNCHANGED <<wishes, wish_seq, comments, comment_seq, wish_deadline, today>>
    /\ UNCHANGED <<tx, previous, reader>>

NextRuns == run_trial

SpecRuns == InitRuns /\ [][NextRuns]_vars

\* ------------------------------------------------------ concurrent readers
\* The development server serves each request in a thread of its own, with
\* a connection of its own.  The sqlite3 module opens a transaction before
\* the first DELETE / INSERT of a connection and closes it at commit();
\* until then the other connections read the rows last committed.  A
\* SELECT is a transaction of its own.

\* The replacement of the stored assignment, statement by statement.
replace_delete ==
    /\ pc = "delete"
    /\ tx' = [open |-> TRUE, rows |-> {}]
    /\ previous' = secret_santa
    /\ pc' = "insert"
    /\ UNCHANGED <<family_members, secret_santa, logged_in, locals>>
    /\ UNCHANGED <<wishes, wish_seq, comments, comment_seq, wish_deadline, today>>
    /\ UNCHANGED <<trial, reader>>

replace_insert ==
    /\ pc = "insert"
    /\ Cardinality(tx.rows) < Len(assignment)
    /\ LET i == Cardinality(tx.rows) + 1 IN
       tx' = [tx EXCEPT !.rows = @ \cup {[giver_name |-> assignment[i],
                                          receiver_name |-> ReceiverAt(assignment, i)]}]
    /\ UNCHANGED <<family_members, secret_santa, logged_in, pc, locals>>
    /\ UNCHANGED <<wishes, wish_seq, comments, comment_seq, wish_deadline, today>>
    /\ UNCHANGED <<trial, previous, reader>>

replace_commit ==
    /\ pc = "insert"
    /\ Cardinality(tx.rows) = Len(assignment)
    /\ secret_santa' = tx.rows
    /\ tx' = NoTx
    /\ flashed' = FlashAfter(assignment)
    /\ pc' = "return"
    /\ UNCHANGED <<family_members, logged_in, names, teams, attempts, assignment>>
    /\ UNCHANGED <<wishes, wish_seq, comments, comment_seq, wish_deadline, today>>
    /\ UNCHANGED <<trial, previous, reader>>

\* What the reading requests leave alone.
writerside ==
    <<family_members, secret_santa, logged_in, pc, locals, wishes, wish_seq,
      comments, comment_seq, wish_deadline, today, trial, tx, previous>>

\* Values of the `selected_members` form field of who_are_you.
SelectedInputs == {sel \in SUBSET Names : Cardinality(sel) \in 1..2}

\* POST who_are_you: the selection is stored in the session unless the
\* selected members are of more than one team.
who_are_you ==
    /\ reader.pc = "idle"
    /\ \E selected \in SelectedInputs :
          LET selected_teams ==
                  {m.team_name : m \in {r \in family_members : r.name \in selected}}
          IN  IF Cardinality(selected_teams) > 1
              THEN UNCHANGED reader
              ELSE reader' = [reader EXCEPT !.selected_members = selected]
    /\ UNCHANGED writerside

\* my_wishlist up to the loop over valid_names.
my_wishlist_begin ==
    /\ reader.pc = "idle"
    /\ reader.selected_members # {}
    /\ LET valid_names ==
              SelectSeq(NameOrder, LAMBDA n : /\ n \in reader.selected_members
                                              /\ InPool(family_members, n))
       IN  IF valid_names = <<>>
           THEN reader' = ReaderStart
           ELSE reader' = [reader EXCEPT !.pc = "select",
                                         !.valid_names = valid_names,
                                         !.looked_up = 0,
                                         !.assigned_to = {}]
    /\ UNCHANGED writerside

\* One iteration of `for name in valid_names`: one SELECT on secret_santa.
my_wishlist_select ==
    /\ reader.pc = "select"
    /\ reader.looked_up < Len(reader.valid_names)
    /\ LET name == reader.valid_names[reader.looked_up + 1]
           rows == {e \in secret_santa : e.giver_name = name}
       IN  reader' = [reader EXCEPT !.looked_up = @ + 1,
                                    !.assigned_to = @ \cup rows]
    /\ UNCHANGED writerside

\* The loop is over; the page shows assigned_to.
my_wishlist_render ==
    /\ reader.pc = "select"
    /\ reader.looked_up = Len(reader.valid_names)
    /\ reader' = [reader EXCEPT !.pc = "my_wishlist"]
    /\ UNCHANGED writerside

\* admin_panel, served next to the run: one SELECT * FROM secret_santa; the
\* page shows its rows.
admin_panel_read ==
    /\ reader.pc = "idle"
    /\ logged_in
    /\ reader' = [reader EXCEPT !.pc = "admin_panel", !.panel = secret_santa]
    /\ UNCHANGED writerside

\* The page is left; the locals of the view are gone.
reader_leaves ==
    /\ reader.pc \in {"my_wishlist", "admin_panel"}
    /\ reader' = [ReaderStart EXCEPT !.selected_members = reader.selected_members]
    /\ UNCHANGED writerside

\* Pools without teams, of at least two members.
TeamlessPools ==
    {ms \in Pools : Cardinality(ms) >= 2 /\ \A m \in ms : ~Truthy(m.team_name)}

\* run_secret_santa has accepted its first shuffle and is about to replace
\* the stored assignment.
InitReaders ==
    /\ family_members \in TeamlessPools
    /\ secret_santa \in StoredInputs
    /\ logged_in = TRUE
    /\ pc = "delete"
    /\ names = SortedNames(family_members)
    /\ teams = TeamMap(family_members)
    /\ attempts = 1
    /\ assignment \in {shuffled \in Shuffles(names) : IsValid(shuffled, teams)}
    /\ flashed = None
    /\ wishes = {}
    /\ wish_seq = 0
    /\ comments = {}
    /\ comment_seq = 0
    /\ wish_deadline = None
    /\ today = 1
    /\ trial = NoTrial
    /\ tx = NoTx
    /\ previous = secret_santa
    /\ reader = ReaderStart

NextReaders ==
    \/ replace_delete
    \/ replace_insert
    \/ replace_commit
    \/ run_secret_santa_return
    \/ who_are_you
    \/ my_wishlist_begin
    \/ my_wishlist_select
    \/ my_wishlist_render
    \/ admin_panel_read
    \/ reader_leaves

SpecReaders == InitReaders /\ [][NextReaders]_vars

\* ================================================================ claims
\* A team tag that is present and not empty.
NonEmptyTeam(t) == t \notin {None, ""}

\* Names of the current pool.
PoolNames == {m.name : m \in family_members}

\* team_name of the pool member called n.
TeamIn(n) == (CHOOSE m \in family_members : m.name = n).team_name

\* Outcomes of a call of run_secret_santa, read where the handler returns.
Returned == pc = "return"
Succeeded == Returned /\ assignment # NoAssignment
InsufficientParticipants == Returned /\ assignment = NoAssignment /\ attempts = 0
NoFeasibleAssignment == Returned /\ assignment = NoAssignment /\ attempts > 0

\* Some non-empty team holds more than half of the pool.
MajorityTeam ==
    \E t \in {m.team_name : m \in family_members} :
        /\ NonEmptyTeam(t)
        /\ 2 * Cardinality({m \in family_members : m.team_name = t})
              > Cardinality(family_members)

\* No member of the pool has a team.
NoTeams == \A m \in family_members : ~NonEmptyTeam(m.team_name)

\* The receiver stored for giver n, and the participant reached from
\* `start` after k giver->receiver edges.
StoredReceiver(n) == (CHOOSE e \in secret_santa : e.giver_name = n).receiver_name
RECURSIVE Walk(_, _)
Walk(start, k) == IF k = 0 THEN start ELSE StoredReceiver(Walk(start, k - 1))

\* C1: when run_secret_santa succeeds, the stored edges name pool members
\* only, and every pool member is the giver of exactly one edge and the
\* receiver of exactly one edge.
C1_EdgesArePermutation ==
    Succeeded =>
        /\ \A e \in secret_santa :
              e.giver_name \in PoolNames /\ e.receiver_name \in PoolNames
        /\ \A n \in PoolNames :
              /\ Cardinality({e \in secret_santa : e.giver_name = n}) = 1
              /\ Cardinality({e \in secret_santa : e.receiver_name = n}) = 1

C1_Witness ==
    /\ Succeeded
    /\ flashed = "success: created"
    /\ Cardinality(family_members) = 4
    /\ Cardinality(secret_santa) = 4

\* C2: when run_secret_santa succeeds, no stored edge joins two members
\* whose teams are both non-empty and equal, the edge from the last element
\* of the accepted permutation to the first included.
C2_NoSameTeamEdge ==
    Succeeded =>
        /\ \A e \in secret_santa :
              ~(/\ NonEmptyTeam(TeamIn(e.giver_name))
                /\ TeamIn(e.giver_name) = TeamIn(e.receiver_name))
        /\ [giver_name |-> assignment[Len(assignment)],
            receiver_name |-> assignment[1]] \in secret_santa

\* A success on a pool where two members share a team and the last and the
\* first element of the accepted permutation both have a team.
C2_Witness ==
    /\ Succeeded
    /\ \E m1, m2 \in family_members :
          m1 # m2 /\ NonEmptyTeam(m1.team_name) /\ m1.team_name = m2.team_name
    /\ NonEmptyTeam(teams[assignment[1]])
    /\ NonEmptyTeam(teams[assignment[Len(assignment)]])

\* C3: when run_secret_santa succeeds, no stored edge has its giver as its
\* receiver.
C3_NoSelfEdge ==
    Succeeded => \A e \in secret_santa : e.giver_name # e.receiver_name

C3_Witness ==
    /\ Succeeded
    /\ Cardinality(family_members) = 2
    /\ Cardinality(secret_santa) = 2

\* C4: when run_secret_santa succeeds on n participants, the stored edges
\* are one cycle of length n: from any participant, following the edges
\* comes back to the start after exactly n steps, not before, and passes
\* through every participant on the way.
C4_SingleCycle ==
    Succeeded =>
        LET n == Cardinality(PoolNames) IN
        /\ Cardinality(secret_santa) = n
        /\ \A e \in secret_santa :
              e.giver_name \in PoolNames /\ e.receiver_name \in PoolNames
        /\ \A m \in PoolNames : \E e \in secret_santa : e.giver_name = m
        /\ \A start \in PoolNames :
              /\ Walk(start, n) = start
              /\ \A k \in 1..(n - 1) : Walk(start, k) # start
              /\ {Walk(start, k) : k \in 1..n} = PoolNames

\* A success on 4 participants, where two 2-cycles would also be a
\* permutation without fixed points.
C4_Witness ==
    /\ Succeeded
    /\ Cardinality(PoolNames) = 4
    /\ Walk(NameOrder[1], 2) # NameOrder[1]
    /\ \E m \in family_members : NonEmptyTeam(m.team_name)

\* C5: every step of a call in which no permutation has been accepted leaves
\* the stored edge set as it was, so a call that ends with all attempts
\* used and nothing accepted has changed nothing; that call flashes the
\* error message.
C5_FailureKeepsStored ==
    [][(pc' # "idle" /\ assignment' = NoAssignment) =>
          /\ secret_santa' = secret_santa
          /\ (pc' = "return" /\ attempts' = MAX_ATTEMPTS) =>
                flashed' = "error: could not create"]_vars

\* All attempts used, nothing accepted, and an earlier assignment is stored.
C5_Witness ==
    /\ NoFeasibleAssignment
    /\ attempts = MAX_ATTEMPTS
    /\ secret_santa # {}
    /\ flashed = "error: could not create"

\* C6: a call on a pool of 0 or 1 members goes straight to its return with
\* the "need at least 2" error, no shuffle attempt and the stored edge set
\* as it was.
C6_InsufficientParticipants ==
    [][(pc = "idle" /\ pc' # "idle" /\ Cardinality(family_members) < 2) =>
          /\ pc' = "return"
          /\ flashed' = "error: need at least 2"
          /\ attempts' = 0
          /\ assignment' = NoAssignment
          /\ secret_santa' = secret_santa]_vars

\* The call on a single member, with an earlier assignment stored.
C6_Witness ==
    /\ InsufficientParticipants
    /\ flashed = "error: need at least 2"
    /\ Cardinality(family_members) = 1
    /\ secret_santa # {}

C8_NoTeamsFirstAttempt ==
    (pc # "idle" /\ Cardinality(family_members) >= 2 /\ NoTeams) =>
        \/ pc = "loop" /\ attempts = 0
        \/ /\ Succeeded
           /\ attempts = 1
           /\ flashed = "success: created"
           /\ secret_santa = EdgesOf(assignment)

\* A first-attempt success on 4 members without teams, with a permutation
\* that is not the sorted list.
C8_Witness ==
    /\ Succeeded
    /\ attempts = 1
    /\ NoTeams
    /\ Cardinality(family_members) = 4
    /\ assignment # names

\* C9: on a pool of exactly two members with different non-empty teams the
\* first attempt is accepted, and what is stored is the 2-cycle between
\* the two.
C9_TwoTeamsTwoCycle ==
    (/\ pc # "idle"
     /\ Cardinality(family_members) = 2
     /\ \A m \in family_members : NonEmptyTeam(m.team_name)
     /\ \E m1, m2 \in family_members : m1.team_name # m2.team_name) =>
        \/ pc = "loop" /\ attempts = 0
        \/ /\ Succeeded
           /\ attempts = 1
           /\ secret_santa =
                 {[giver_name |-> names[1], receiver_name |-> names[2]],
                  [giver_name |-> names[2], receiver_name |-> names[1]]}

C9_Witness ==
    /\ Succeeded
    /\ Cardinality(family_members) = 2
    /\ \A m \in family_members : NonEmptyTeam(m.team_name)
    /\ \E m1, m2 \in family_members : m1.team_name # m2.team_name
    /\ assignment = <<names[2], names[1]>>

\* C10: a call never makes more than MAX_ATTEMPTS shuffle attempts and
\* cannot stall: inside the loop an attempt is always left to make and each
\* step makes exactly one; at the return the call is in exactly one of the
\* outcomes InsufficientParticipants (no attempt, too small a pool),
\* NoFeasibleAssignment (all attempts used, nothing stored) and success
\* (the accepted permutation stored).
C10_Outcome ==
    LET insufficient == /\ flashed = "error: need at least 2"
                        /\ attempts = 0
                        /\ assignment = NoAssignment
                        /\ Cardinality(family_members) < 2
        nofeasible   == /\ flashed = "error: could not create"
                        /\ attempts = MAX_ATTEMPTS
                        /\ assignment = NoAssignment
        success      == /\ flashed = "success: created"
                        /\ attempts \in 1..MAX_ATTEMPTS
                        /\ assignment # NoAssignment
                        /\ secret_santa = EdgesOf(assignment)
    IN  Returned =>
            /\ insufficient \/ nofeasible \/ success
            /\ ~(insufficient /\ nofeasible)
            /\ ~(insufficient /\ success)
            /\ ~(nofeasible /\ success)

C10_BoundedTermination ==
    /\ [](attempts <= MAX_ATTEMPTS)
    /\ [](pc = "loop" => attempts < MAX_ATTEMPTS /\ ENABLED run_secret_santa_attempt)
    /\ [](Returned => ENABLED run_secret_santa_return)
    /\ [](C10_Outcome)
    /\ [][pc = "loop" => (attempts' = attempts + 1 /\ pc' \in {"loop", "return"})]_vars
    /\ [][pc = "return" => pc' = "idle"]_vars

\* A success on the very last attempt.
C10_Witness ==
    /\ Succeeded
    /\ attempts = MAX_ATTEMPTS

\* ------------------------------------------------ two calls side by side
\* Both calls of the trial have returned.
TrialRan == trial # NoTrial

\* e is the edge from some element of the list a to the element after it,
\* the last element being followed by the first.
CycleEdge(a, e) ==
    \E i \in 1..Len(a) :
        /\ e.giver_name = a[i]
        /\ e.receiver_name = a[IF i = Len(a) THEN 1 ELSE i + 1]

\* C11: after a successful call the table holds exactly the edges of the
\* accepted permutation of the pool: every row is one of its edges, every
\* edge is a row, and a row stored before the call is still there only if
\* it is one of the new edges; no row has a giver outside the pool.
C11_ReplacesStored ==
    TrialRan =>
        \A k \in 1..2 :
            LET a     == trial.after[k].assignment
                after == trial.after[k].secret_santa
            IN  a # NoAssignment =>
                   /\ {a[i] : i \in 1..Len(a)} = PoolNames
                   /\ Len(a) = Cardinality(PoolNames)
                   /\ \A e \in after : CycleEdge(a, e)
                   /\ \A i \in 1..Len(a) : \E e \in after : e.giver_name = a[i]
                   /\ Cardinality(after) = Len(a)
                   /\ \A e \in trial.before[k] : e \in after => CycleEdge(a, e)
                   /\ \A e \in after : e.giver_name \in PoolNames

\* A successful call on a table that held an edge of a giver who has left
\* the pool and an edge that the new permutation has again.
C11_Witness ==
    /\ TrialRan
    /\ \E k \in 1..2 :
          /\ trial.after[k].assignment # NoAssignment
          /\ \E e \in trial.before[k] :
                e.giver_name \notin PoolNames /\ e \notin trial.after[k].secret_santa
          /\ \E e \in trial.before[k] : e \in trial.after[k].secret_santa

\* C13 as stated: two calls on the same pool with the same shuffle outcomes
\* end with the same outcome and the same stored edge set, whatever was
\* stored before.
C13_SameStoredAlways ==
    TrialRan =>
        /\ trial.after[1].flashed = trial.after[2].flashed
        /\ trial.after[1].secret_santa = trial.after[2].secret_santa

\* C13, amended: two calls on the same pool with the same shuffle outcomes
\* end with the same outcome, after the same number of attempts and with
\* the same accepted permutation, whatever was stored before; after a
\* success they leave the same stored edge set, and after a failure each
\* leaves the edge set it found.
C13_IndependentOfStored ==
    TrialRan =>
        /\ trial.after[1].flashed = trial.after[2].flashed
        /\ trial.after[1].attempts = trial.after[2].attempts
        /\ trial.after[1].assignment = trial.after[2].assignment
        /\ trial.after[1].assignment # NoAssignment =>
              trial.after[1].secret_santa = trial.after[2].secret_santa
        /\ trial.after[1].assignment = NoAssignment =>
              \A k \in 1..2 : trial.after[k].secret_santa = trial.before[k]

\* Two successes at the second attempt on different stored edge sets, both
\* non-empty.
C13_Witness ==
    /\ TrialRan
    /\ trial.before[1] # trial.before[2]
    /\ trial.before[1] # {}
    /\ trial.after[1].flashed = "success: created"
    /\ trial.after[2].flashed = "success: created"
    /\ trial.after[1].attempts = 2
    /\ trial.after[1].secret_santa = trial.after[2].secret_santa

\* The list p has no team collision: no element has a non-empty team that
\* is also the team of the element after it (the first, after the last).
NoCollision(p) ==
    \A i \in 1..Len(p) :
        LET g == p[i]
            r == p[IF i = Len(p) THEN 1 ELSE i + 1]
        IN  ~(NonEmptyTeam(TeamIn(g)) /\ TeamIn(g) = TeamIn(r))

\* The permutation attempted at attempt number i of the trial.
Attempted(i) == IF i < trial.sh.switch THEN trial.sh.first ELSE trial.sh.rest

\* C17: a call on at least 2 members ends with a success or with the "could
\* not create" error.  The permutation it accepts is the one of its last
\* attempt, that permutation has no team collision and the permutation of
\* every attempt before it has one: the first collision-free permutation is
\* accepted and no attempt follows it.  The error is reported only after
\* MAX_ATTEMPTS attempts each of which had a collision.
C17_FirstCollisionFree ==
    (TrialRan /\ Cardinality(family_members) >= 2) =>
        \A k \in 1..2 :
            LET r == trial.after[k] IN
            \/ /\ r.flashed = "success: created"
               /\ r.attempts \in 1..MAX_ATTEMPTS
               /\ r.assignment = Attempted(r.attempts)
               /\ NoCollision(Attempted(r.attempts))
               /\ \A j \in 1..(r.attempts - 1) : ~NoCollision(Attempted(j))
            \/ /\ r.flashed = "error: could not create"
               /\ r.assignment = NoAssignment
               /\ r.attempts = MAX_ATTEMPTS
               /\ \A j \in 1..MAX_ATTEMPTS : ~NoCollision(Attempted(j))

\* A call whose attempts all collide except the last of the range, which
\* is accepted.
C17_Witness ==
    /\ TrialRan
    /\ Cardinality(family_members) = 4
    /\ ~NoCollision(trial.sh.first)
    /\ NoCollision(trial.sh.rest)
    /\ trial.sh.switch = MAX_ATTEMPTS
    /\ trial.after[1].flashed = "success: created"
    /\ trial.after[1].attempts = MAX_ATTEMPTS

\* C14: the stored assignment is empty, or it has every member of the
\* current pool exactly once as giver and exactly once as receiver and
\* names nobody else.
C14_StoredMatchesPool ==
    \/ secret_santa = {}
    \/ /\ \A e \in secret_santa :
              e.giver_name \in PoolNames /\ e.receiver_name \in PoolNames
       /\ \A n \in PoolNames :
              /\ Cardinality({e \in secret_santa : e.giver_name = n}) = 1
              /\ Cardinality({e \in secret_santa : e.receiver_name = n}) = 1

\* --------------------------------------------------- wishes and deadline
\* A deadline is configured, and the day number of its date.
DeadlineSet == wish_deadline \notin {None, ""}
DeadlineDay == CHOOSE d \in 1..Len(IsoDays) : IsoDays[d] = wish_deadline

\* Today is strictly after the configured deadline.
DeadlinePassed == DeadlineSet /\ today > DeadlineDay

\* Some add_wish request is served by the step; some delete_wish request.
AddWishStep ==
    \E p \in PersonInputs, t \in WishTextInputs, own \in BOOLEAN : AddWish(p, t, own)
DeleteWishStep == \E wish_id \in 1..MaxWishes : DeleteWish(wish_id)

\* C15: an add_wish served when today is strictly after the configured
\* deadline inserts nothing.  Served on or before the deadline date, or
\* with no deadline set, it is not blocked: a request that names a pool
\* member and carries a wish text inserts one new wish, for that member.
\* (The step that serves an add_wish goes from "idle" to "redirect".)
C15_DeadlineGate ==
    [][(pc = "idle" /\ pc' = "redirect") =>
          \A p \in PersonInputs, t \in WishTextInputs, own \in BOOLEAN :
             AddWish(p, t, own) =>
                /\ DeadlinePassed => (wishes' = wishes /\ wish_seq' = wish_seq)
                /\ (~DeadlinePassed /\ p \in PoolNames /\ t # "") =>
                      /\ Cardinality(wishes') = Cardinality(wishes) + 1
                      /\ wishes \subseteq wishes'
                      /\ \A w \in wishes' \ wishes :
                            w.person_name = p /\ w.wish_text = t]_vars

\* A wish has just been inserted on the deadline date itself.
C15_Witness ==
    /\ pc = "redirect"
    /\ flashed = "success: wish created"
    /\ DeadlineSet
    /\ today = DeadlineDay
    /\ \E w \in wishes : w.id = wish_seq

\* C16: while today is strictly after the configured deadline, no add_wish
\* and no delete_wish request changes the set of stored wishes.
C16_ReadOnlyAfterDeadline ==
    [][(DeadlinePassed /\ (AddWishStep \/ DeleteWishStep)) => wishes' = wishes]_vars

\* C19: no wish is stored at the start, and after every step every stored
\* wish belongs to a member of the pool as it then is.  A step that removes
\* a member removes exactly that member's wishes; a step that replaces a
\* member's row by a new one gives the new name to that member's wishes and
\* leaves the other wishes as they are; a step that leaves the pool as it
\* is (a duplicate-name error among them) and neither inserts nor deletes
\* a wish leaves the wishes as they are.
C19_WishesOfMembers ==
    [][/\ \A w \in wishes' : \E m \in family_members' : m.name = w.person_name
       /\ (/\ family_members' = family_members
           /\ {w.id : w \in wishes'} = {w.id : w \in wishes}) => wishes' = wishes
       /\ \A member \in family_members \ family_members' :
             IF Cardinality(family_members') < Cardinality(family_members)
             THEN wishes' = {w \in wishes : w.person_name # member.name}
             ELSE \A edited \in family_members' \ family_members :
                     /\ Cardinality(wishes') = Cardinality(wishes)
                     /\ \A w \in wishes :
                           \E v \in wishes' :
                              /\ v.id = w.id
                              /\ v.wish_text = w.wish_text
                              /\ v.person_name = IF w.person_name = member.name
                                                 THEN edited.name ELSE w.person_name]_vars

\* A wish stands under a name that add_wish is never asked for: the member
\* it was made for has been renamed since, and the wish with the member.
C19_Witness ==
    /\ \E w \in wishes : w.person_name \notin PersonInputs /\ w.person_name \in PoolNames
    /\ \E w \in wishes : w.person_name \in PersonInputs
    /\ Cardinality(family_members) >= 2

\* ------------------------------------------------------------ admin gate
\* The tables.
stored == <<family_members, secret_santa, wishes, comments, wish_deadline>>

\* C18: a step taken while the session is not logged in changes no table,
\* and the request it serves is over with it; of the requests the step can
\* serve only an admin_login with the admin username and the admin
\* password logs the session in; after admin_logout the session is not
\* logged in.
C18_AdminGate ==
    /\ [][~logged_in => (stored' = stored /\ pc' = "idle")]_vars
    /\ [][\A username \in UsernameInputs, password \in PasswordInputs :
             (LoginWith(username, password) /\ logged_in' /\ ~logged_in) =>
                (username = "admin" /\ password = "admin123")]_vars
    /\ [][(~logged_in /\ logged_in') =>
             \E username \in UsernameInputs, password \in PasswordInputs :
                LoginWith(username, password)]_vars
    /\ [][admin_logout => ~logged_in']_vars
    /\ [](~logged_in => ENABLED login_required_redirect)

\* Logged out again, with members, a stored assignment and a deadline that
\* the admin routes could change.
C18_Witness ==
    /\ ~logged_in
    /\ Cardinality(family_members) >= 2
    /\ secret_santa # {}
    /\ DeadlineSet

\* ------------------------------------------------------ concurrent readers
\* The rows of the edge set `edges` whose giver is one of `givers`.
EdgesOfGivers(edges, givers) == {e \in edges : e.giver_name \in givers}

\* C12: what a request that reads the assignment next to a successful run
\* shows is the complete previous edge set or the complete new one:
\* my_wishlist shows, for the selected members, their edges of one of the
\* two sets, and admin_panel shows one of the two sets.
C12_ReaderSeesOldOrNew ==
    /\ reader.pc = "my_wishlist" =>
          LET givers == {reader.valid_names[i] : i \in 1..Len(reader.valid_names)}
          IN  \/ reader.assigned_to = EdgesOfGivers(previous, givers)
              \/ reader.assigned_to = EdgesOfGivers(secret_santa, givers)
    /\ reader.pc = "admin_panel" =>
          reader.panel = previous \/ reader.panel = secret_santa

====
